---- MODULE Spec2Model ----
(***************************************************************************)
(* Model of the campaign scheduling engine of leadsender                   *)
(* (electron/services/CampaignScheduler.ts): one campaign, its contacts,   *)
(* its participating accounts, the in-memory WorkerState, the armed        *)
(* timers and the sends that are awaiting the transport.                   *)
(*                                                                         *)
(* The process is a single-threaded event loop and the store calls         *)
(* (better-sqlite3) are synchronous, so every timer callback runs          *)
(* atomically up to its first await on the transport: one action per       *)
(* callback, one action per transport result.                              *)
(***************************************************************************)
EXTENDS Integers, Sequences, FiniteSets, Bags, TLC

(* ------------------------------ bounds -------------------------------- *)

\* number of calendar days after the first one that the clock may reach
MaxDay == 1

\* number of armed timers plus cycles awaiting the transport the model follows
MaxChains == 2

\* number of equidistant values Math.random() is sampled at
RandomSteps == 1

(* ------------------------- sets of the model -------------------------- *)

Accounts == {"a1", "a2"}

\* rows of campaign_accounts come back ordered by the primary key
AccountOrder == <<"a1", "a2">>

Contacts == {"c1", "c2"}

\* the orders in which "LIMIT 1" without ORDER BY may meet the rows
ContactOrders ==
  {s \in [1..Cardinality(Contacts) -> Contacts] :
     \A i, j \in 1..Cardinality(Contacts) : s[i] = s[j] => i = j}

NULL == "NULL"

(* --------------------------- program constants ------------------------ *)

RetryMinDelay == 60
RetryMaxDelay == 120
StuckRecheckDelay == 60
MaxRunningHours == 168
HoursPerDay == 24

BlackListError == "Contact in BlackList"

VARIABLES
  phase,             \* "boot" before the constructor ran, "up" after it
  clock,             \* local wall clock [day, hour]
  campaign,          \* the campaign row of the store
  campaign_accounts, \* the participating accounts
  contacts,          \* the campaign_contacts rows
  blacklist,         \* contacts whose phone number carries the BlackList tag
  connected,         \* accounts for which isConnected() is true
  activeCampaigns,   \* the WorkerState of the campaign, if any
  timers,            \* bag of armed timers that accountTimeouts does not hold
  inflight,          \* bag of worker cycles awaiting the transport
  midnight,          \* day at which the daily reset timer fires
  activities,        \* bag of the auto-resume activity records
  startCalls,        \* startCampaign invocations made by resumeRunningCampaigns
  delivered,         \* successful transport sends per contact since a reset
  attempts,          \* startCampaign invocations made by the checker
  last               \* the lifecycle operation that produced this state, or "step"

vars == <<phase, clock, campaign, campaign_accounts, contacts, blacklist,
          connected, activeCampaigns, timers, inflight, midnight, activities,
          startCalls, delivered, attempts, last>>

(* ------------------------------- time --------------------------------- *)

\* the campaign rows the model starts from
Configs ==
  { [min_delay |-> 1, max_delay |-> 2, max_messages_per_day |-> 1,
     start_hour |-> 9, end_hour |-> 18] }

\* hours at which a comparison of the code against the clock can change
ClockHoursOf(c) == {0, c.start_hour, c.end_hour} \cap (0..(HoursPerDay - 1))

ClockHours == ClockHoursOf(campaign)

NowHours == clock.day * HoursPerDay + clock.hour

\* new Date().toISOString().split('T')[0]: the UTC date; the local clock of
\* the model is UTC
Today == clock.day

InWindow(h, c) == ~(h < c.start_hour \/ h >= c.end_hour)

\* Math.floor(Math.random() * (max - min + 1)) + min, random = k / RandomSteps
getRandomDelay(min, max, k) == ((k * (max - min + 1)) \div RandomSteps) + min

(* ------------------------------ timers -------------------------------- *)

NoTimer == [cb |-> "none", acct |-> "-", kind |-> "none", secs |-> 0, day |-> 0, hour |-> 0]

DelayTimer(a, s) ==
  [cb |-> "wake", acct |-> a, kind |-> "delay", secs |-> s, day |-> 0, hour |-> 0]

AtTimer(cb, a, d, h) ==
  [cb |-> cb, acct |-> a, kind |-> "at", secs |-> 0, day |-> d, hour |-> h]

\* setTimeout never fires early
Due(t) ==
  \/ t.kind = "delay"
  \/ clock.day > t.day
  \/ clock.day = t.day /\ clock.hour >= t.hour

NoEntry == [st |-> "none", t |-> NoTimer]
StaleEntry == [st |-> "stale", t |-> NoTimer]
ArmedEntry(t) == [st |-> "armed", t |-> t]

NoState ==
  [active |-> FALSE, isRunning |-> FALSE,
   accountTimeouts |-> [a \in Accounts |-> NoEntry],
   messagesSentToday |-> [a \in Accounts |-> 0],
   lastResetDate |-> 0]

(* ------------------------- the scheduler's state ----------------------- *)

\* what the operations of the scheduler read and write
Cur ==
  [campaign |-> campaign, contacts |-> contacts, ac |-> activeCampaigns,
   timers |-> timers, inflight |-> inflight, activities |-> activities,
   startCalls |-> startCalls]

Commit(S) ==
  /\ campaign' = S.campaign
  /\ contacts' = S.contacts
  /\ activeCampaigns' = S.ac
  /\ timers' = S.timers
  /\ inflight' = S.inflight
  /\ activities' = S.activities
  /\ startCalls' = S.startCalls

\* every armed timer: those accountTimeouts holds and the others
ArmedInMap(ac) == {a \in Accounts : ac.accountTimeouts[a].st = "armed"}

TimerCount(S) == BagCardinality(S.timers) + Cardinality(ArmedInMap(S.ac))

\* every callback still to come: armed timers and awaited sends
ChainCount(S) == TimerCount(S) + BagCardinality(S.inflight)

logActivity(S, msg) == [S EXCEPT !.activities = @ (+) SetToBag({msg})]

\* state.accountTimeouts.set(accountId, setTimeout(...)): a handle that is
\* overwritten while armed is not cleared, its timer stays armed
SetAccountTimeout(S, a, t) ==
  LET old == S.ac.accountTimeouts[a]
  IN  [S EXCEPT !.ac.accountTimeouts[a] = ArmedEntry(t),
                !.timers = IF old.st = "armed" THEN @ (+) SetToBag({old.t}) ELSE @]

\* the same on a WorkerState that activeCampaigns no longer holds
SetOrphanTimeout(S, t) == [S EXCEPT !.timers = @ (+) SetToBag({t})]

\* the stop aborting the sends that await the transport
Orphaned_aborted(B) == EmptyBag

\* the cycles awaiting the transport keep the WorkerState they started with
Orphaned(B) ==
  LET D == {[r EXCEPT !.live = FALSE] : r \in BagToSet(B)}
  IN  [d \in D |-> CopiesIn(d, B) + CopiesIn([d EXCEPT !.live = TRUE], B)]

NewState ==
  [active |-> TRUE, isRunning |-> TRUE,
   accountTimeouts |-> [a \in Accounts |-> NoEntry],
   messagesSentToday |-> [a \in Accounts |-> 0],
   lastResetDate |-> Today]

\* the pause leaving the WorkerState running
pauseCampaign_stillRunning(S) ==
  LET S1 == IF S.ac.active
            THEN [S EXCEPT !.ac.accountTimeouts = [a \in Accounts |-> NoEntry]]
            ELSE S
  IN  [S1 EXCEPT !.campaign.status = "paused"]

pauseCampaign(S) ==
  LET S1 == IF S.ac.active
            THEN [S EXCEPT !.ac.isRunning = FALSE,
                           !.ac.accountTimeouts = [a \in Accounts |-> NoEntry]]
            ELSE S
  IN  [S1 EXCEPT !.campaign.status = "paused"]

stopCampaign(S) ==
  LET S1 == IF S.ac.active
            THEN [S EXCEPT !.ac = NoState, !.inflight = Orphaned(@)]
            ELSE S
  IN  [S1 EXCEPT !.campaign.status = "stopped", !.campaign.completed_at = "SET"]

PendingContact == [status |-> "pending", sent_by_account_id |-> NULL,
                   sent_at |-> NULL, error |-> NULL]

\* the reset leaving the error of the contacts
resetCampaign_errorKept(S) ==
  LET S1 == stopCampaign(S)
  IN  [S1 EXCEPT !.contacts = [c \in Contacts |-> [PendingContact EXCEPT !.error = S.contacts[c].error]],
                 !.campaign.status = "draft",
                 !.campaign.started_at = <<>>,
                 !.campaign.completed_at = NULL]

resetCampaign(S) ==
  LET S1 == stopCampaign(S)
  IN  [S1 EXCEPT !.contacts = [c \in Contacts |-> PendingContact],
                 !.campaign.status = "draft",
                 !.campaign.started_at = <<>>,
                 !.campaign.completed_at = NULL]

resetDailyCountersIfNeeded(S) ==
  IF ~S.ac.active THEN S
  ELSE IF S.ac.lastResetDate # Today
       THEN [S EXCEPT !.ac.messagesSentToday = [a \in Accounts |-> 0],
                      !.ac.lastResetDate = Today]
       ELSE S

\* the transport reporting every account connected
isConnected_always(a) == TRUE

isConnected(a) == a \in connected

\* the pending query without its BlackList filter
Claimable_unfiltered(S) == {c \in Contacts : S.contacts[c].status = "pending"}

\* rows of the pending query: pending and the phone number not in BlackList
Claimable(S) == {c \in Contacts : S.contacts[c].status = "pending" /\ c \notin blacklist}

\* rows of the blacklisted query
BlacklistedPending(S) == {c \in Contacts : S.contacts[c].status = "pending" /\ c \in blacklist}

Stuck(S) == {c \in Contacts : S.contacts[c].status = "sending"}

FirstIn(ord, X) ==
  ord[CHOOSE i \in 1..Len(ord) : ord[i] \in X /\ \A j \in 1..(i - 1) : ord[j] \notin X]

\* UPDATE ... SET status = 'pending' WHERE status = 'sending' AND sent_by_account_id IS NULL
releaseStuck(S) ==
  [S EXCEPT !.contacts = [c \in Contacts |->
     IF @[c].status = "sending" /\ @[c].sent_by_account_id = NULL
     THEN [@[c] EXCEPT !.status = "pending"] ELSE @[c]]]

\* the cleanup writing the error and leaving the status
markSkipped_statusKept(S) ==
  [S EXCEPT !.contacts = [c \in Contacts |->
     IF @[c].status = "pending" /\ c \in blacklist
     THEN [@[c] EXCEPT !.error = BlackListError] ELSE @[c]]]

\* UPDATE ... SET status = 'failed', error = 'Contact in BlackList'
markSkipped(S) ==
  [S EXCEPT !.contacts = [c \in Contacts |->
     IF @[c].status = "pending" /\ c \in blacklist
     THEN [@[c] EXCEPT !.status = "failed", !.error = BlackListError] ELSE @[c]]]

\* the branch of sendNextMessageFromAccount that finds no contact and nothing stuck
finishAccount(S, a) ==
  LET S1 == [S EXCEPT !.ac.accountTimeouts[a] = NoEntry]
  IN  IF \A b \in Accounts : S1.ac.accountTimeouts[b].st = "none"
      THEN LET S2 == stopCampaign(S1)
               S3 == [S2 EXCEPT !.campaign.status = "completed",
                                !.campaign.completed_at = "SET"]
           IN  S3     \* the activity record and the notification are write-only
      ELSE S1

\* runs up to the await on the transport: awaiting tells whether it got there
sendNextMessageFromAccount(S, a, ord) ==
  IF S.ac.messagesSentToday[a] >= S.campaign.max_messages_per_day
  THEN [S |-> SetAccountTimeout(S, a, AtTimer("wake", a, clock.day + 1, S.campaign.start_hour)),
        awaiting |-> FALSE]
  ELSE IF ~isConnected(a)
  THEN [S |-> releaseStuck(S), awaiting |-> FALSE]
  ELSE IF Claimable(S) = {}
  THEN LET S1 == IF BlacklistedPending(S) # {} THEN markSkipped(S) ELSE S
       IN  IF Stuck(S1) # {}
           THEN [S |-> SetAccountTimeout(S1, a, DelayTimer(a, StuckRecheckDelay)),
                 awaiting |-> FALSE]
           ELSE [S |-> finishAccount(S1, a), awaiting |-> FALSE]
  ELSE LET c == FirstIn(ord, Claimable(S))
       IN  [S |-> [S EXCEPT !.contacts[c].status = "sending",
                            !.inflight = @ (+) SetToBag({[acct |-> a, contact |-> c, live |-> TRUE]})],
            awaiting |-> TRUE]

\* lines 273-285: the timer a cycle arms when sendNextMessageFromAccount is over
rearm(S, a, live, sendSuccessful, k) ==
  LET delay == IF sendSuccessful
               THEN getRandomDelay(S.campaign.min_delay, S.campaign.max_delay, k)
               ELSE getRandomDelay(RetryMinDelay, RetryMaxDelay, k)
  IN  IF live THEN SetAccountTimeout(S, a, DelayTimer(a, delay))
      ELSE SetOrphanTimeout(S, DelayTimer(a, delay))

\* the window check taking end_hour as a working hour
scheduleNextMessageForAccount_endIncluded(S, a, ord, k) ==
  IF ~S.ac.active \/ ~S.ac.isRunning THEN S
  ELSE IF clock.hour < S.campaign.start_hour \/ clock.hour > S.campaign.end_hour
  THEN SetAccountTimeout(S, a,
         AtTimer("wake", a,
                 IF clock.hour >= S.campaign.end_hour THEN clock.day + 1 ELSE clock.day,
                 S.campaign.start_hour))
  ELSE LET R == sendNextMessageFromAccount(resetDailyCountersIfNeeded(S), a, ord)
       IN  IF R.awaiting THEN R.S
           ELSE rearm(R.S, a, R.S.ac.active, TRUE, k)

scheduleNextMessageForAccount(S, a, ord, k) ==
  IF ~S.ac.active \/ ~S.ac.isRunning THEN S
  ELSE IF clock.hour < S.campaign.start_hour \/ clock.hour >= S.campaign.end_hour
  THEN SetAccountTimeout(S, a,
         AtTimer("wake", a,
                 IF clock.hour >= S.campaign.end_hour THEN clock.day + 1 ELSE clock.day,
                 S.campaign.start_hour))
  ELSE LET R == sendNextMessageFromAccount(resetDailyCountersIfNeeded(S), a, ord)
       IN  IF R.awaiting THEN R.S
           ELSE rearm(R.S, a, R.S.ac.active, TRUE, k)

\* the Store calls of a cycle that can throw: getCampaign of
\* scheduleNextMessageForAccount (line 229) and getCampaign of
\* sendNextMessageFromAccount (line 289)
StoreFaults == {"load", "cycle"}

\* the cycle reaches the Store call `at`
ReachesStore(S, at) ==
  /\ S.ac.active /\ S.ac.isRunning
  /\ at = "cycle" => ~(clock.hour < S.campaign.start_hour \/ clock.hour >= S.campaign.end_hour)

\* scheduleNextMessageForAccount when the Store call `at` throws: line 229 is
\* outside the try of lines 265-271 and the exception leaves the function;
\* line 289 is inside it and lines 273-285 arm the retry
scheduleNextMessageForAccountThrows(S, a, k, at) ==
  IF at = "load" THEN S
  ELSE rearm(resetDailyCountersIfNeeded(S), a, TRUE, FALSE, k)

RECURSIVE scheduleAll(_, _, _, _)
scheduleAll(S, accts, ord, k) ==
  IF accts = <<>> THEN S
  ELSE scheduleAll(scheduleNextMessageForAccount(S, Head(accts), ord, k), Tail(accts), ord, k)

ParticipatingSeq == SelectSeq(AccountOrder, LAMBDA a : a \in campaign_accounts)

startCampaign(S, ord, k) ==
  IF S.ac.active THEN S
  ELSE LET S1 == [S EXCEPT !.campaign.status = "running",
                           !.campaign.started_at = IF @ = <<>> THEN <<NowHours>> ELSE @]
       IN  IF campaign_accounts = {} THEN S1
           ELSE scheduleAll([S1 EXCEPT !.ac = NewState], ParticipatingSeq, ord, k)

\* the Store calls of startCampaign that can throw: getCampaign (line 120)
\* and the SELECT of the participating accounts (lines 135-138)
StartFaults == {"load", "accounts"}

\* startCampaign when its Store call `at` throws
startCampaignThrows(S, at) ==
  IF at = "load" THEN S
  ELSE [S EXCEPT !.campaign.status = "running",
                 !.campaign.started_at = IF @ = <<>> THEN <<NowHours>> ELSE @]

(* --------------------------- the checker ------------------------------- *)

\* WHERE status = 'draft' AND scheduled_start_datetime IS NOT NULL
\*   AND scheduled_start_datetime <= now.toISOString(): both sides are UTC
\* instants written by toISOString, which compare as the instants do
Scheduled(S) ==
  /\ S.campaign.status = "draft"
  /\ S.campaign.scheduled_start_datetime # NULL
  /\ S.campaign.scheduled_start_datetime[1] <= NowHours

\* startScheduledCampaign: `at` is the Store call of startCampaign that
\* throws, or "none"; updated tells whether the UPDATE of the catch block runs
\* or throws in its turn
startScheduledCampaign(S, ord, k, at, updated) ==
  IF at = "none" \/ S.ac.active THEN startCampaign(S, ord, k)
  ELSE LET S1 == startCampaignThrows(S, at)
       IN  IF updated THEN [S1 EXCEPT !.campaign.status = "stopped"] ELSE S1

checkScheduledCampaigns(S, ord, k, at, updated) ==
  IF Scheduled(S) THEN startScheduledCampaign(S, ord, k, at, updated) ELSE S

(* ------------------------ failure classification ----------------------- *)

\* messages the transport rejects a send with (WhatsAppManager.sendMessage)
ErrBanned == "Account has been banned or restricted by WhatsApp"
ErrCountryCode == "Phone number must include country code (e.g., 972501234567)"
ErrNotConnected == "Account not connected"
ErrNotReady == "WhatsApp Web is not ready. Please wait a moment and try again."

TransportErrors == {ErrBanned, ErrCountryCode, ErrNotConnected, ErrNotReady}

\* (error as Error).message?.toLowerCase(), as its sequence of words
toLowerCase(msg) ==
  CASE msg = ErrBanned ->
         <<"account", "has", "been", "banned", "or", "restricted", "by", "whatsapp">>
    [] msg = ErrCountryCode ->
         <<"phone", "number", "must", "include", "country", "code", "(e.g.,", "972501234567)">>
    [] msg = ErrNotConnected ->
         <<"account", "not", "connected">>
    [] msg = ErrNotReady ->
         <<"whatsapp", "web", "is", "not", "ready.", "please", "wait", "a", "moment",
           "and", "try", "again.">>
    [] OTHER -> <<>>

\* the substrings that make a failure permanent, as sequences of words
PermanentPatterns ==
  { <<"banned">>, <<"blocked">>, <<"restricted">>, <<"account", "has", "been">>,
    <<"not", "registered">>, <<"phone", "number", "not", "registered">>,
    <<"invalid", "phone">>, <<"phone", "number", "must", "include">>,
    <<"invalid", "number">>, <<"does", "not", "exist">>, <<"chat", "not", "found">>,
    <<"contact", "not", "found">>, <<"recipient", "not", "found">>,
    <<"recipient", "not", "available">>, <<"user", "not", "found">>,
    <<"number", "is", "not", "on", "whatsapp">>,
    <<"you", "have", "been", "blocked">>, <<"this", "contact", "blocked", "you">>,
    <<"privacy", "settings">>,
    <<"cannot", "send", "message", "to", "this", "contact">>,
    <<"invalid", "format">>, <<"malformed">>, <<"invalid", "input">> }

includes(words, pat) ==
  \E i \in 1..Len(words) :
     /\ i + Len(pat) - 1 <= Len(words)
     /\ SubSeq(words, i, i + Len(pat) - 1) = pat

isPermanentFailure(msg) == \E pat \in PermanentPatterns : includes(toLowerCase(msg), pat)

\* the classification of the messages of the transport
PermanentErrors == {e \in TransportErrors : isPermanentFailure(e)}

(* ------------------------- process start (Init) ------------------------ *)

\* hoursSinceStart of the stored campaigns the process may find running
StoredAges == {2, 168, 169}

AccountSets == {{}, {"a1"}, {"a1", "a2"}}

Init ==
  /\ phase = "boot"
  /\ \E cfg \in Configs : \E h \in ClockHoursOf(cfg), st \in {"draft", "running"}, age \in StoredAges :
       /\ clock = [day |-> 0, hour |-> h]
       /\ campaign = [status |-> st,
                      started_at |-> IF st = "draft" THEN <<>> ELSE <<h - age>>,
                      completed_at |-> NULL,
                      scheduled_start_datetime |-> NULL,
                      min_delay |-> cfg.min_delay, max_delay |-> cfg.max_delay,
                      max_messages_per_day |-> cfg.max_messages_per_day,
                      start_hour |-> cfg.start_hour, end_hour |-> cfg.end_hour]
       /\ contacts \in
            IF st = "draft" THEN {[c \in Contacts |-> PendingContact]}
            ELSE {[c \in Contacts |-> PendingContact],
                  [c \in Contacts |-> IF c = "c1"
                                      THEN [PendingContact EXCEPT !.status = "sending"]
                                      ELSE PendingContact]}
  /\ campaign_accounts \in AccountSets
  /\ blacklist = {}
  /\ connected = {}
  /\ activeCampaigns = NoState
  /\ timers = EmptyBag
  /\ inflight = EmptyBag
  /\ midnight = 0
  /\ activities = EmptyBag
  /\ startCalls = 0
  /\ delivered = [c \in Contacts |-> 0]
  /\ attempts = 0
  /\ last = "init"

EnvUnchanged == UNCHANGED <<phase, clock, campaign_accounts, blacklist, connected, midnight>>
HistUnchanged == UNCHANGED <<delivered, attempts>>

(* --------------------------- the constructor --------------------------- *)

\* the age of the run counted in whole days
hoursSinceStart_wholeDays(S) ==
  IF S.campaign.started_at = <<>> THEN MaxRunningHours + 1
  ELSE ((NowHours - S.campaign.started_at[1]) \div HoursPerDay) * HoursPerDay

hoursSinceStart(S) ==
  IF S.campaign.started_at = <<>> THEN MaxRunningHours + 1   \* new Date(null) is 1970
  ELSE NowHours - S.campaign.started_at[1]

\* the constructor arming the deferred resume although it resumed at once
resumeRunningCampaigns_both(S, ord, k) ==
  IF S.campaign.status # "running" THEN S
  ELSE IF hoursSinceStart(S) > MaxRunningHours
  THEN [S EXCEPT !.campaign.status = "paused"]
  ELSE LET S1 == IF clock.hour >= S.campaign.start_hour /\ clock.hour < S.campaign.end_hour
                 THEN logActivity(startCampaign([S EXCEPT !.startCalls = @ + 1], ord, k),
                                  "auto-resumed after app restart")
                 ELSE S
       IN  IF clock.hour < S.campaign.start_hour
           THEN [S1 EXCEPT !.timers = @ (+) SetToBag({AtTimer("resume", "-", clock.day, S.campaign.start_hour)})]
           ELSE [S1 EXCEPT !.timers = @ (+) SetToBag({AtTimer("resume", "-", clock.day + 1, S.campaign.start_hour)})]

resumeRunningCampaigns(S, ord, k) ==
  IF S.campaign.status # "running" THEN S
  ELSE IF hoursSinceStart(S) > MaxRunningHours
  THEN [S EXCEPT !.campaign.status = "paused"]
  ELSE IF clock.hour >= S.campaign.start_hour /\ clock.hour < S.campaign.end_hour
  THEN logActivity(startCampaign([S EXCEPT !.startCalls = @ + 1], ord, k),
                   "auto-resumed after app restart")
  ELSE IF clock.hour < S.campaign.start_hour
  THEN [S EXCEPT !.timers = @ (+) SetToBag({AtTimer("resume", "-", clock.day, S.campaign.start_hour)})]
  ELSE [S EXCEPT !.timers = @ (+) SetToBag({AtTimer("resume", "-", clock.day + 1, S.campaign.start_hour)})]

\* new CampaignScheduler(db, whatsappManager)
Boot ==
  /\ phase = "boot"
  /\ phase' = "up"
  /\ \E ord \in ContactOrders, k \in 0..(RandomSteps - 1) :
       \E S1 \in {resumeRunningCampaigns(Cur, ord, k)} :
           /\ ChainCount(S1) <= MaxChains
           /\ Commit(S1)
           /\ last' = "boot"
  /\ midnight' = clock.day + 1          \* startDailyReset
  /\ UNCHANGED <<clock, campaign_accounts, blacklist, connected>>
  /\ HistUnchanged

\* the one-shot timer resumeRunningCampaigns armed outside the working hours
ResumeTimerFires ==
  /\ phase = "up"
  /\ \E t \in BagToSet(timers), ord \in ContactOrders, k \in 0..(RandomSteps - 1) :
       /\ t.cb = "resume"
       /\ Due(t)
       /\ \E S1 \in {logActivity(startCampaign([Cur EXCEPT !.timers = @ (-) SetToBag({t}),
                                                              !.startCalls = @ + 1], ord, k),
                                  "auto-resumed at start of working hours")} :
              /\ ChainCount(S1) <= MaxChains
              /\ Commit(S1)
              /\ last' = "step"
  /\ EnvUnchanged
  /\ HistUnchanged

(* ----------------------- the public operations ------------------------- *)

ApiStart ==
  /\ phase = "up"
  /\ \E ord \in ContactOrders, k \in 0..(RandomSteps - 1) :
       \E S1 \in {startCampaign(Cur, ord, k)} :
           /\ ChainCount(S1) <= MaxChains
           /\ Commit(S1)
           /\ last' = "step"
  /\ EnvUnchanged
  /\ HistUnchanged

ApiPause ==
  /\ phase = "up"
  /\ \E S1 \in {pauseCampaign(Cur)} : Commit(S1)
  /\ last' = "step"
  /\ EnvUnchanged
  /\ HistUnchanged

ApiStop ==
  /\ phase = "up"
  /\ \E S1 \in {stopCampaign(Cur)} : Commit(S1)
  /\ last' = "step"
  /\ EnvUnchanged
  /\ HistUnchanged

ApiReset ==
  /\ phase = "up"
  /\ \E S1 \in {resetCampaign(Cur)} : Commit(S1)
  /\ last' = IF last \in {"reset", "reset2"} THEN "reset2" ELSE "reset"
  /\ delivered' = [c \in Contacts |-> 0]
  /\ UNCHANGED attempts
  /\ EnvUnchanged

(* --------------------------- the worker cycle -------------------------- *)

\* the timer that accountTimeouts holds for account a fires: the handle
\* stays in the map
WakeMapped(a) ==
  /\ phase = "up"
  /\ a \in ArmedInMap(activeCampaigns)
  /\ Due(activeCampaigns.accountTimeouts[a].t)
  /\ \E ord \in ContactOrders, k \in 0..(RandomSteps - 1) :
       \E S1 \in {scheduleNextMessageForAccount(
                     [Cur EXCEPT !.ac.accountTimeouts[a] = StaleEntry], a, ord, k)} :
           /\ ChainCount(S1) <= MaxChains
           /\ Commit(S1)
           /\ last' = "step"
  /\ EnvUnchanged
  /\ HistUnchanged

MappedTimerFires == \E a \in Accounts : WakeMapped(a)

\* the timer accountTimeouts holds for account a fires and a Store call of
\* the cycle throws
WakeMappedThrows(a, at) ==
  /\ phase = "up"
  /\ a \in ArmedInMap(activeCampaigns)
  /\ Due(activeCampaigns.accountTimeouts[a].t)
  /\ ReachesStore(Cur, at)
  /\ \E k \in 0..(RandomSteps - 1) :
       \E S1 \in {scheduleNextMessageForAccountThrows(
                     [Cur EXCEPT !.ac.accountTimeouts[a] = StaleEntry], a, k, at)} :
           /\ ChainCount(S1) <= MaxChains
           /\ Commit(S1)
           /\ last' = "step"
  /\ EnvUnchanged
  /\ HistUnchanged

CycleThrows == \E a \in Accounts, at \in StoreFaults : WakeMappedThrows(a, at)

\* the timers scheduleNextMessageForAccount and sendNextMessageFromAccount arm
WakeTimers ==
  {DelayTimer(a, d) : a \in Accounts,
                      d \in {StuckRecheckDelay}
                             \cup {getRandomDelay(RetryMinDelay, RetryMaxDelay, k) : k \in 0..(RandomSteps - 1)}
                             \cup UNION {c.min_delay..c.max_delay : c \in Configs}}
    \cup {AtTimer("wake", a, d, c.start_hour) : a \in Accounts, d \in 0..(MaxDay + 1), c \in Configs}

\* timer t, which no live accountTimeouts holds, fires
WakeLoose(t) ==
  /\ phase = "up"
  /\ t \in BagToSet(timers)
  /\ t.cb = "wake"
  /\ Due(t)
  /\ \E ord \in ContactOrders, k \in 0..(RandomSteps - 1) :
       \E S1 \in {scheduleNextMessageForAccount(
                     [Cur EXCEPT !.timers = @ (-) SetToBag({t})], t.acct, ord, k)} :
           /\ ChainCount(S1) <= MaxChains
           /\ Commit(S1)
           /\ last' = "step"
  /\ EnvUnchanged
  /\ HistUnchanged

LooseTimerFires == \E t \in BagToSet(timers) : WakeLoose(t)

Saturate(n, max) == IF n < max THEN n + 1 ELSE n

\* the worker cycles that can await the transport
Flights == [acct : Accounts, contact : Contacts, live : BOOLEAN]

\* the transport resolves the send of cycle r: lines 462-484, then lines 273-285
Resolve(r) ==
  /\ r \in BagToSet(inflight)
  /\ \E k \in 0..(RandomSteps - 1) :
       LET S0 == [Cur EXCEPT
                    !.inflight = @ (-) SetToBag({r}),
                    !.contacts[r.contact] =
                       [@ EXCEPT !.status = "sent", !.sent_by_account_id = r.acct,
                                 !.sent_at = "SET"],
                    !.ac.messagesSentToday[r.acct] = IF r.live THEN @ + 1 ELSE @]
       IN  \E S1 \in {rearm(S0, r.acct, r.live, TRUE, k)} :
           /\ ChainCount(S1) <= MaxChains
           /\ Commit(S1)
           /\ last' = "step"
           /\ delivered' = [delivered EXCEPT ![r.contact] = Saturate(@, 2)]
  /\ UNCHANGED attempts
  /\ EnvUnchanged

SendOk == \E r \in BagToSet(inflight) : Resolve(r)

\* the transport rejects the send of cycle r with one of errors: lines 486-554,
\* then lines 273-285 (the error was caught inside sendNextMessageFromAccount,
\* so sendSuccessful is true)
Reject(r, errors) ==
  /\ r \in BagToSet(inflight)
  /\ \E err \in errors, k \in 0..(RandomSteps - 1) :
       LET S0 == [Cur EXCEPT
                    !.inflight = @ (-) SetToBag({r}),
                    !.contacts[r.contact] =
                       IF err \in PermanentErrors
                       THEN [@ EXCEPT !.status = "failed", !.error = err]
                       ELSE [@ EXCEPT !.status = "pending"]]
       IN  \E S1 \in {rearm(S0, r.acct, r.live, TRUE, k)} :
           /\ ChainCount(S1) <= MaxChains
           /\ Commit(S1)
           /\ last' = "step"
  /\ HistUnchanged
  /\ EnvUnchanged

SendFailWith(errors) == \E r \in BagToSet(inflight) : Reject(r, errors)

SendFail == SendFailWith(TransportErrors)

\* the send fails for good
SendFailPermanent == SendFailWith(PermanentErrors)

(* ----------------------------- environment ----------------------------- *)

\* a tick of the checker: at start() and then every CHECK_INTERVAL
CheckerTickWith(at, updated) ==
  /\ phase = "up"
  /\ \E ord \in ContactOrders, k \in 0..(RandomSteps - 1) :
       \E S1 \in {checkScheduledCampaigns(Cur, ord, k, at, updated)} :
           /\ ChainCount(S1) <= MaxChains
           /\ Commit(S1)
  /\ last' = IF Scheduled(Cur) /\ at # "none" THEN "start failed" ELSE "step"
  /\ attempts' = IF Scheduled(Cur) THEN Saturate(attempts, 2) ELSE attempts
  /\ UNCHANGED delivered
  /\ EnvUnchanged

CheckerTick ==
  \/ CheckerTickWith("none", TRUE)
  \/ \E at \in StartFaults, updated \in BOOLEAN : CheckerTickWith(at, updated)

SchedUnchanged ==
  UNCHANGED <<campaign, contacts, activeCampaigns, timers, inflight, activities, startCalls>>

Connect ==
  /\ phase = "up"
  /\ \E a \in Accounts \ connected :
       /\ connected' = connected \cup {a}
       /\ last' = "step"
  /\ UNCHANGED <<phase, clock, campaign_accounts, blacklist, midnight>>
  /\ SchedUnchanged
  /\ HistUnchanged

Disconnect ==
  /\ phase = "up"
  /\ \E a \in connected :
       /\ connected' = connected \ {a}
       /\ last' = "step"
  /\ UNCHANGED <<phase, clock, campaign_accounts, blacklist, midnight>>
  /\ SchedUnchanged
  /\ HistUnchanged

\* the user tags a contact BlackList
Tag ==
  /\ phase = "up"
  /\ \E c \in Contacts \ blacklist :
       /\ blacklist' = blacklist \cup {c}
       /\ last' = "step"
  /\ UNCHANGED <<phase, clock, campaign_accounts, connected, midnight>>
  /\ SchedUnchanged
  /\ HistUnchanged

Untag ==
  /\ phase = "up"
  /\ \E c \in blacklist :
       /\ blacklist' = blacklist \ {c}
       /\ last' = "step"
  /\ UNCHANGED <<phase, clock, campaign_accounts, connected, midnight>>
  /\ SchedUnchanged
  /\ HistUnchanged

\* the wall clock reaches the next hour the code can tell from this one
Tick ==
  /\ phase = "up"
  /\ LET later == {h \in ClockHours : h > clock.hour}
     IN  IF later # {}
         THEN clock' = [clock EXCEPT !.hour = CHOOSE h \in later : \A g \in later : h <= g]
         ELSE /\ clock.day < MaxDay
              /\ clock' = [day |-> clock.day + 1, hour |-> 0]
  /\ last' = "step"
  /\ UNCHANGED <<phase, campaign_accounts, blacklist, connected, midnight>>
  /\ HistUnchanged
  /\ SchedUnchanged

\* the timer of startDailyReset fires and arms the next one
DailyReset ==
  /\ phase = "up"
  /\ clock.day >= midnight
  /\ midnight' = clock.day + 1
  /\ activeCampaigns' =
       IF activeCampaigns.active
       THEN [activeCampaigns EXCEPT !.messagesSentToday = [a \in Accounts |-> 0],
                                    !.lastResetDate = Today]
       ELSE activeCampaigns
  /\ last' = "step"
  /\ UNCHANGED <<phase, clock, campaign_accounts, blacklist, connected,
                 campaign, contacts, timers, inflight, activities, startCalls>>
  /\ HistUnchanged

\* the process exits and is started again: the Store keeps its rows; the
\* WorkerStates, the timers, the awaited sends and the transport's clients are
\* gone, and so is what this process had counted
Restart ==
  /\ phase = "up"
  /\ phase' = "boot"
  /\ activeCampaigns' = NoState
  /\ timers' = EmptyBag
  /\ inflight' = EmptyBag
  /\ connected' = {}
  /\ activities' = EmptyBag
  /\ startCalls' = 0
  /\ last' = "init"
  /\ UNCHANGED <<clock, campaign, campaign_accounts, contacts, blacklist, midnight>>
  /\ HistUnchanged

Next ==
  \/ Boot
  \/ Restart
  \/ ResumeTimerFires
  \/ CheckerTick
  \/ ApiStart
  \/ ApiPause
  \/ ApiStop
  \/ ApiReset
  \/ MappedTimerFires
  \/ CycleThrows
  \/ LooseTimerFires
  \/ SendOk
  \/ SendFail
  \/ Connect
  \/ Disconnect
  \/ Tag
  \/ Untag
  \/ Tick
  \/ DailyReset

Spec == Init /\ [][Next]_vars

(* ---------------------- the specifications checked --------------------- *)

\* a campaign created and not yet started, at the first hour of its window
InitDraft ==
  /\ Init
  /\ campaign.status = "draft"
  /\ clock.hour = campaign.start_hour
  /\ campaign_accounts # {}

Worker == MappedTimerFires \/ LooseTimerFires \/ SendOk

\* the workers racing for the contacts while the accounts come and go and
\* the transport accepts or rejects the sends
NextFail == Boot \/ ApiStart \/ Worker \/ SendFail \/ Connect \/ Disconnect

SpecFail == InitDraft /\ [][NextFail]_vars

\* the BlackList tag set and removed while the campaign runs
NextTags == Boot \/ ApiStart \/ Worker \/ SendFail \/ Connect \/ Tag \/ Untag

SpecTags == InitDraft /\ [][NextTags]_vars

\* the public operations called at any moment
NextLife ==
  Boot \/ ApiStart \/ ApiPause \/ ApiStop \/ ApiReset \/ Worker \/ SendFailPermanent \/ Connect

SpecLife == InitDraft /\ [][NextLife]_vars

\* the process started at any hour on any stored campaign, and the clock running
NextTime ==
  Boot \/ ResumeTimerFires \/ ApiStart \/ Worker \/ Connect \/ Tick \/ DailyReset

SpecTime == Init /\ [][NextTime]_vars

\* a campaign stored as running two hours ago, with any working hours the
\* form accepts, found at any hour of the day
WindowBounds == 0..24

InitWindow ==
  /\ phase = "boot"
  /\ \E cfg \in Configs : \E h \in 0..(HoursPerDay - 1), sh \in WindowBounds, eh \in WindowBounds :
       /\ clock = [day |-> 0, hour |-> h]
       /\ campaign = [status |-> "running",
                      started_at |-> <<h - 2>>,
                      completed_at |-> NULL,
                      scheduled_start_datetime |-> NULL,
                      min_delay |-> cfg.min_delay, max_delay |-> cfg.max_delay,
                      max_messages_per_day |-> cfg.max_messages_per_day,
                      start_hour |-> sh, end_hour |-> eh]
  /\ contacts = [c \in Contacts |-> PendingContact]
  /\ campaign_accounts = {"a1"}
  /\ blacklist = {}
  /\ connected = {}
  /\ activeCampaigns = NoState
  /\ timers = EmptyBag
  /\ inflight = EmptyBag
  /\ midnight = 0
  /\ activities = EmptyBag
  /\ startCalls = 0
  /\ delivered = [c \in Contacts |-> 0]
  /\ attempts = 0
  /\ last = "init"

NextWindow == Boot \/ ResumeTimerFires \/ MappedTimerFires \/ Tick

SpecWindow == InitWindow /\ [][NextWindow]_vars

\* the Store failing under the worker cycles
NextThrow == Boot \/ ApiStart \/ MappedTimerFires \/ SendOk \/ Connect \/ CycleThrows

SpecThrow == InitDraft /\ [][NextThrow]_vars

\* a draft campaign with or without a scheduled start, found at any hour
ScheduledStarts == {NULL, <<0>>, <<9>>, <<HoursPerDay>>}

InitScheduled ==
  /\ phase = "boot"
  /\ \E cfg \in Configs : \E h \in ClockHoursOf(cfg), at \in ScheduledStarts :
       /\ clock = [day |-> 0, hour |-> h]
       /\ campaign = [status |-> "draft",
                      started_at |-> <<>>,
                      completed_at |-> NULL,
                      scheduled_start_datetime |-> at,
                      min_delay |-> cfg.min_delay, max_delay |-> cfg.max_delay,
                      max_messages_per_day |-> cfg.max_messages_per_day,
                      start_hour |-> cfg.start_hour, end_hour |-> cfg.end_hour]
  /\ contacts = [c \in Contacts |-> PendingContact]
  /\ campaign_accounts \in AccountSets
  /\ blacklist = {}
  /\ connected = {}
  /\ activeCampaigns = NoState
  /\ timers = EmptyBag
  /\ inflight = EmptyBag
  /\ midnight = 0
  /\ activities = EmptyBag
  /\ startCalls = 0
  /\ delivered = [c \in Contacts |-> 0]
  /\ attempts = 0
  /\ last = "init"

\* the checker polling while the clock runs and the campaign may be started
\* by hand
NextChecker ==
  Boot \/ CheckerTick \/ ApiStart \/ MappedTimerFires \/ SendOk \/ Connect \/ Tick

SpecChecker == InitScheduled /\ [][NextChecker]_vars

\* the process restarted at any moment of a day of sending
NextRestart == Boot \/ Restart \/ ApiStart \/ MappedTimerFires \/ SendOk \/ Connect

SpecRestart == InitDraft /\ [][NextRestart]_vars

(* ------------------------- what the claims speak of -------------------- *)

\* the worker cycles that claimed contact c and await its transport result
HoldersOf(c) ==
  LET H == {r \in BagToSet(inflight) : r.contact = c}
  IN  BagCardinality([r \in H |-> CopiesIn(r, inflight)])

\* the callbacks still to come that belong to account a
ChainsOf(a) ==
  LET T == {t \in BagToSet(timers) : t.cb = "wake" /\ t.acct = a}
      F == {r \in BagToSet(inflight) : r.acct = a}
  IN  BagCardinality([t \in T |-> CopiesIn(t, timers)])
      + BagCardinality([r \in F |-> CopiesIn(r, inflight)])
      + (IF activeCampaigns.accountTimeouts[a].st = "armed" THEN 1 ELSE 0)

\* the worker cycles of account a that await the transport
HoldersOfAccount(a) ==
  LET F == {r \in BagToSet(inflight) : r.acct = a}
  IN  BagCardinality([r \in F |-> CopiesIn(r, inflight)])

\* a step that claims contact c: pending to sending
Claims(c) == contacts[c].status = "pending" /\ contacts'[c].status = "sending"

(* ------------------------------- C1, C2 -------------------------------- *)

\* C1: at every moment a contact is held in flight (claimed as sending and
\* awaiting its transport result) by at most one worker.
C1_OneHolderPerContact == \A c \in Contacts : HoldersOf(c) <= 1

\* C2: between two resets the transport send succeeds at most once per
\* contact, however many accounts work the campaign.
C2_DeliveredAtMostOnce == \A c \in Contacts : delivered[c] <= 1

TypeOK ==
  /\ phase \in {"boot", "up"}
  /\ campaign.status \in {"draft", "running", "paused", "stopped", "completed"}
  /\ \A c \in Contacts : contacts[c].status \in {"pending", "sending", "sent", "failed"}
  /\ \A t \in BagToSet(timers) : t.cb = "wake" => t \in WakeTimers
  /\ BagToSet(inflight) \subseteq Flights

(* ------------------------------ fairness ------------------------------- *)

\* for every account: an armed timer of the account fires when it is due and
\* the transport settles a send of the account
Fairness ==
  \A a \in Accounts :
    /\ WF_vars(WakeMapped(a))
    /\ WF_vars(\E t \in WakeTimers : t.acct = a /\ WakeLoose(t))
    /\ WF_vars(\E r \in Flights : r.acct = a /\ (Resolve(r) \/ Reject(r, TransportErrors)))

FairTags == SpecTags /\ Fairness

(* ------------------------------- C3 ------------------------------------ *)

\* the campaign is running under a WorkerState
Running ==
  /\ campaign.status = "running"
  /\ activeCampaigns.active
  /\ activeCampaigns.isRunning

\* account a could send now: connected, in the window, below its cap
CanSend(a) ==
  /\ isConnected(a)
  /\ InWindow(clock.hour, campaign)
  /\ activeCampaigns.messagesSentToday[a] < campaign.max_messages_per_day

\* nothing is left to send and every participating account could send
Exhausted ==
  /\ Running
  /\ campaign_accounts # {}
  /\ \A a \in campaign_accounts : CanSend(a)
  /\ \A c \in Contacts : contacts[c].status \in {"sent", "failed"}
  /\ inflight = EmptyBag

Completed ==
  /\ campaign.status = "completed"
  /\ ~activeCampaigns.active

\* C3: a running campaign whose participating accounts are all connected,
\* in-window and below their cap, whose contacts are all sent or failed and
\* which has no send in flight, eventually is completed and its WorkerState
\* deleted (or stops being in that situation).  A wake that finds nothing
\* left and does not complete the campaign re-arms the timer it fired from:
\* that step leaves every variable as it was.
C3_ExhaustedCompletes == Exhausted ~> (Completed \/ ~Exhausted)

(* ------------------------------- C4 ------------------------------------ *)

\* the contacts that account a marked sent and that still are
SentBy(a) ==
  {c \in Contacts : contacts[c].status = "sent" /\ contacts[c].sent_by_account_id = a}

\* C4: within one process run and one calendar day no account marks more
\* contacts of the campaign sent than max_messages_per_day (the clock of the
\* specification this is checked under stays in one day).
C4_DailyCap ==
  \A a \in Accounts : Cardinality(SentBy(a)) <= campaign.max_messages_per_day

(* ------------------------------- C5 ------------------------------------ *)

\* C5: whenever a worker claims a contact (pending to sending) the local hour
\* h satisfies start_hour <= h < end_hour of the campaign.
C5_ClaimInWindow ==
  [][\A c \in Contacts :
       Claims(c) => campaign.start_hour <= clock.hour /\ clock.hour < campaign.end_hour]_vars

\* a contact claimed on the day after the process started
C5_Witness ==
  /\ clock.day = 1
  /\ \E c \in Contacts : contacts[c].status = "sending" /\ HoldersOf(c) = 1
  /\ campaign.start_hour <= clock.hour /\ clock.hour < campaign.end_hour

(* ------------------------------- C6 ------------------------------------ *)

\* C6: a worker never claims a contact whose phone number carries the
\* BlackList tag at the moment of the claim query.
C6_NoBlacklistedClaim ==
  [][\A c \in Contacts : Claims(c) => c \notin blacklist]_vars

\* a contact is held in flight while a pending one carries the tag
C6_Witness ==
  /\ \E c \in Contacts \ blacklist : contacts[c].status = "sending" /\ HoldersOf(c) = 1
  /\ \E c \in blacklist : contacts[c].status = "pending"

(* ------------------------------- C7 ------------------------------------ *)

Skipped(c) == contacts[c].status = "failed" /\ contacts[c].error = BlackListError

\* contact c is pending and tagged while the campaign runs with an account
\* that could send
AwaitsSkip(c) ==
  /\ Running
  /\ \E a \in campaign_accounts : CanSend(a)
  /\ c \in blacklist
  /\ contacts[c].status = "pending"

\* C7 as stated: while the campaign is running with at least one account that
\* is connected, in-window and below its cap, and timers fire fairly, every
\* pending contact carrying the BlackList tag eventually gets status failed
\* with error 'Contact in BlackList'.
C7_SkippedEventually ==
  \A c \in Contacts : AwaitsSkip(c) ~> (Skipped(c) \/ ~AwaitsSkip(c))

\* running the cleanup again changes nothing
CleanupIdempotent == markSkipped(markSkipped(Cur)) = markSkipped(Cur)

\* C7 amended: the same while, in addition, no contact of the campaign is
\* pending without the BlackList tag; and running the cleanup again changes
\* nothing.
C7_SkippedWhenNothingClaimable ==
  /\ []CleanupIdempotent
  /\ \A c \in Contacts :
       (AwaitsSkip(c) /\ Claimable(Cur) = {})
         ~> (Skipped(c) \/ ~(AwaitsSkip(c) /\ Claimable(Cur) = {}))

\* the cleanup failed one contact and left a sent one alone
C7_Witness ==
  /\ \E c \in Contacts : Skipped(c)
  /\ \E c \in Contacts : contacts[c].status = "sent"

(* ------------------------------- C8 ------------------------------------ *)

\* the failures the transport reports for a ban and for an invalid number
PermanentKinds == {ErrBanned, ErrCountryCode}

\* C8: when the send fails for a permanent reason the contact gets status
\* failed with the error text and no worker claims it again before a reset;
\* otherwise it returns to pending.
C8_FailureOutcome ==
  [][/\ \A r \in Flights, e \in TransportErrors :
          Reject(r, {e}) =>
            IF e \in PermanentKinds
            THEN contacts'[r.contact].status = "failed" /\ contacts'[r.contact].error = e
            ELSE contacts'[r.contact].status = "pending"
     /\ \A c \in Contacts : contacts[c].error \in PermanentKinds => ~Claims(c)]_vars

(* ------------------------------- C9 ------------------------------------ *)

\* C9: after resetCampaign, called once or twice in a row with no send in
\* flight, every contact is pending with error, sent_at and
\* sent_by_account_id NULL, the campaign is draft with started_at and
\* completed_at NULL, and no WorkerState exists.
C9_ResetCanonical ==
  (last \in {"reset", "reset2"} /\ inflight = EmptyBag) =>
     /\ \A c \in Contacts :
          /\ contacts[c].status = "pending"
          /\ contacts[c].error = NULL
          /\ contacts[c].sent_at = NULL
          /\ contacts[c].sent_by_account_id = NULL
     /\ campaign.status = "draft"
     /\ campaign.started_at = <<>>
     /\ campaign.completed_at = NULL
     /\ ~activeCampaigns.active

\* the second of two consecutive resets, with nothing in flight
C9_Witness == last = "reset2" /\ inflight = EmptyBag

(* ------------------------------- C10 ----------------------------------- *)

\* the constructor found the campaign running, started at most 168 hours
\* ago, inside its working hours
ResumedAtBoot ==
  /\ last = "boot"
  /\ campaign.status = "running"
  /\ campaign.started_at # <<>>
  /\ NowHours - campaign.started_at[1] <= 168
  /\ campaign.start_hour <= clock.hour /\ clock.hour < campaign.end_hour

\* C10: constructing the scheduler on a campaign stored as running, started
\* at most 168 hours ago, inside its working hours, calls startCampaign for it
\* exactly once, records exactly one auto-resume activity and leaves one
\* worker chain per participating account.
C10_ResumeOnce ==
  ResumedAtBoot =>
     /\ startCalls = 1
     /\ activities = SetToBag({"auto-resumed after app restart"})
     /\ \A t \in BagToSet(timers) : t.cb # "resume"
     /\ \A a \in Accounts : ChainsOf(a) = IF a \in campaign_accounts THEN 1 ELSE 0

\* resumed at the 168th hour with both accounts participating
C10_Witness ==
  /\ ResumedAtBoot
  /\ NowHours - campaign.started_at[1] = 168
  /\ campaign_accounts = Accounts

(* ------------------------------- C11 ----------------------------------- *)

\* pauseCampaign found a WorkerState and no stop, reset or completion came since
PausedState ==
  /\ campaign.status = "paused"
  /\ activeCampaigns.active
  /\ ~activeCampaigns.isRunning

\* C11: after pauseCampaign returns, and until the campaign is started again,
\* no worker of the campaign has an armed timer (so no worker wake fires),
\* also when the pause arrives while a send is in flight or after a worker
\* took the daily-limit or the stuck-recheck path.
C11_PausedNoTimer ==
  PausedState => \A a \in Accounts : ChainsOf(a) = HoldersOfAccount(a)

(* ------------------------------- C12 ----------------------------------- *)

\* a WorkerState exists and says running
WorkerRunning == activeCampaigns.active /\ activeCampaigns.isRunning

\* a step in which startCampaign is called
StartCalled == ApiStart \/ Boot \/ ResumeTimerFires

\* C12: after pauseCampaign or stopCampaign returns, no contact is moved from
\* pending to sending and no new transport send is started until startCampaign
\* is next called: pause and stop leave no running WorkerState, only a call of
\* startCampaign makes one, and a contact is claimed or a send started only in
\* a call of startCampaign or by a wake that finds a running WorkerState.
C12_NoClaimAfterHalt ==
  [][/\ (ApiPause \/ ApiStop) => ~WorkerRunning'
     /\ (~WorkerRunning /\ WorkerRunning') => StartCalled
     /\ ((\E c \in Contacts : Claims(c)) \/ BagCardinality(inflight') > BagCardinality(inflight))
          => (StartCalled \/ WorkerRunning)]_vars

\* a paused or stopped campaign with a pending contact and a connected
\* account, whose earlier send has finished
C12_Witness ==
  /\ campaign.status \in {"paused", "stopped"}
  /\ ~WorkerRunning
  /\ \E c \in Contacts : contacts[c].status = "pending"
  /\ \E c \in Contacts : contacts[c].status = "sent"
  /\ campaign_accounts \subseteq connected
  /\ inflight = EmptyBag
  /\ \E a \in Accounts : ChainsOf(a) > 0

(* ------------------------------- C13 ----------------------------------- *)

\* C13: calling startCampaign on a campaign that pauseCampaign paused makes
\* it running again: in every paused state the start call can take the
\* campaign to status running with a running WorkerState.
C13_StartResumesPaused ==
  PausedState => ENABLED (ApiStart /\ campaign'.status = "running" /\ WorkerRunning')

(* ------------------------------- C14 ----------------------------------- *)

\* C14: startCampaign on a campaign with zero participating accounts starts
\* no worker and leaves the campaign as it was: status, started_at and the
\* worker registry are unchanged.
C14_NoAccountsNoStart ==
  [][(ApiStart /\ campaign_accounts = {})
       => (UNCHANGED <<campaign, activeCampaigns>> /\ timers' = timers)]_vars

(* ------------------------------- C15 ----------------------------------- *)

\* C15: an account has at most one transport send in flight at any moment.
C15_OneSendPerAccount ==
  \A a \in Accounts : HoldersOfAccount(a) <= 1

(* ------------------------------- C18 ----------------------------------- *)

\* the stored campaign is running and was started more than 168 hours ago
RunningTooLong ==
  /\ campaign.status = "running"
  /\ campaign.started_at # <<>>
  /\ NowHours - campaign.started_at[1] > 168

\* C18: at process start a campaign stored as running whose started_at is more
\* than 168 hours in the past is set to paused, whatever the current hour:
\* startCampaign is not called for it, it gets no WorkerState, no timer and no
\* auto-resume activity, and nothing else of its row changes.
C18_TooLongPaused ==
  [][(Boot /\ RunningTooLong) =>
        /\ campaign' = [campaign EXCEPT !.status = "paused"]
        /\ startCalls' = 0
        /\ ~activeCampaigns'.active
        /\ timers' = EmptyBag
        /\ inflight' = EmptyBag
        /\ activities' = EmptyBag
        /\ contacts' = contacts]_vars

\* the constructor has paused a campaign of 169 hours inside its working
\* hours (the stored campaigns are draft or running, so paused at boot is the
\* constructor's work)
C18_Witness ==
  /\ last = "boot"
  /\ campaign.status = "paused"
  /\ campaign.started_at # <<>>
  /\ NowHours - campaign.started_at[1] = 169
  /\ campaign.start_hour <= clock.hour /\ clock.hour < campaign.end_hour
  /\ campaign_accounts # {}

(* ------------------------------- C20 ----------------------------------- *)

\* start_hour <= h and h < end_hour, at the current hour
InsideHours == campaign.start_hour <= clock.hour /\ clock.hour < campaign.end_hour

\* C20: the in-window test of the worker loop and of resumeRunningCampaigns
\* equals (start_hour <= h and h < end_hour) for every hour h in 0..23 and
\* every start_hour, end_hour in 0..24: the constructor starts a running
\* campaign at once exactly when the hour is inside, and a wake of the worker
\* loop arms the wake at start_hour exactly when the hour is not inside.
C20_WindowTest ==
  [][/\ InWindow(clock.hour, campaign) = InsideHours
     /\ (Boot /\ campaign.status = "running") => ((startCalls' = startCalls + 1) <=> InsideHours)
     /\ \A a \in Accounts :
          (WakeMapped(a) /\ WorkerRunning) =>
             ((activeCampaigns'.accountTimeouts[a].t.kind = "at") <=> ~InsideHours)]_vars

\* with window (9,18): started by the constructor inside the window, the
\* worker woke at hour 18 and armed its wake for 9 o'clock of the next day
C20_Witness ==
  /\ campaign.start_hour = 9 /\ campaign.end_hour = 18
  /\ clock.hour = 18
  /\ startCalls = 1
  /\ activeCampaigns.accountTimeouts["a1"] = ArmedEntry(AtTimer("wake", "a1", clock.day + 1, 9))

(* ------------------------------- C16 ----------------------------------- *)

\* C16: when a Store call of a worker cycle throws while the campaign is
\* running, the loading of the campaign record at the start of the cycle
\* included, the exception does not end the worker: the cycle arms a retry
\* wake of the account 60 to 120 seconds later.
C16_ThrowRetries ==
  [][\A a \in Accounts, at \in StoreFaults :
        WakeMappedThrows(a, at) =>
           \E d \in RetryMinDelay..RetryMaxDelay :
              activeCampaigns'.accountTimeouts[a] = ArmedEntry(DelayTimer(a, d))]_vars

(* ------------------------------- C17 ----------------------------------- *)

\* the process finds the campaign running with contact c1 left in sending
\* by a process that exited during the send
InitLeftOver ==
  /\ Init
  /\ campaign.status = "running"
  /\ NowHours - campaign.started_at[1] <= MaxRunningHours
  /\ contacts["c1"].status = "sending"
  /\ campaign_accounts # {}

SpecLeftOver == InitLeftOver /\ [][NextTime]_vars

\* the timers fire when they are due, the transport settles every send and
\* the clock advances
FairLeftOver ==
  /\ SpecLeftOver
  /\ Fairness
  /\ WF_vars(ResumeTimerFires)
  /\ WF_vars(Tick)
  /\ WF_vars(DailyReset)

\* contact c is in sending and no worker cycle awaits its send
LeftInSending(c) == contacts[c].status = "sending" /\ HoldersOf(c) = 0

DueDraft ==
  /\ campaign.status = "draft"
  /\ campaign.scheduled_start_datetime # NULL
  /\ campaign.scheduled_start_datetime[1] <= NowHours

\* C19: on each checker tick startCampaign is called once for the campaign
\* when its status is draft and its scheduled_start_datetime <= now, and not
\* at all when it is not draft or its scheduled time is in the future or
\* absent; when the start attempt fails the status becomes stopped; in either
\* outcome no later tick attempts the campaign again.
C19_OneAttempt ==
  [][/\ CheckerTick => /\ DueDraft => attempts' = attempts + 1
                       /\ ~DueDraft => UNCHANGED <<attempts, campaign, contacts, activeCampaigns,
                                                   timers, inflight>>
     /\ (CheckerTick /\ last' = "start failed") => campaign'.status = "stopped"
     /\ attempts' <= 1]_vars

(* ------------------------------- C21 ----------------------------------- *)

\* draft->running, running->paused, paused->running, running->stopped,
\* paused->stopped, running->completed
StatusEdges ==
  {<<"draft", "running">>, <<"running", "paused">>, <<"paused", "running">>,
   <<"running", "stopped">>, <<"paused", "stopped">>, <<"running", "completed">>}

\* C21: every change of the campaign's stored status made by the scheduler
\* follows one of the edges of StatusEdges or is the return to draft by
\* resetCampaign: a stopped or completed campaign does not become running,
\* paused or stopped again without a reset, and stopCampaign does not set a
\* draft campaign to stopped.
C21_StatusEdges ==
  [][campaign'.status # campaign.status =>
        \/ <<campaign.status, campaign'.status>> \in StatusEdges
        \/ ApiReset /\ campaign'.status = "draft"]_vars

(* ------------------------------- C22 ----------------------------------- *)

\* C22: a contact whose status is sent or failed does not change status
\* again except through resetCampaign: no worker cycle, release step or late
\* send result moves it to pending, sending or the other terminal status.
C22_TerminalContact ==
  [][\A c \in Contacts :
        contacts[c].status \in {"sent", "failed"} =>
           \/ contacts'[c].status = contacts[c].status
           \/ ApiReset]_vars

(* ------------------------------- C23 ----------------------------------- *)

\* the timer accountTimeouts holds for account a after the step is a delay
\* of lo..hi seconds
NextWakeWithin(a, lo, hi) ==
  \E d \in lo..hi : activeCampaigns'.accountTimeouts[a] = ArmedEntry(DelayTimer(a, d))

\* C23: after a worker cycle that attempted a send, the delay to the
\* worker's next wake lies in min_delay..max_delay seconds when the send
\* succeeded, and in 60..120 seconds when the send failed with a transport
\* error, permanent or transient.
C23_DelayAfterSend ==
  [][\A r \in Flights :
        r.live =>
          /\ Resolve(r) => NextWakeWithin(r.acct, campaign.min_delay, campaign.max_delay)
          /\ Reject(r, TransportErrors) => NextWakeWithin(r.acct, RetryMinDelay, RetryMaxDelay)]_vars

(* ------------------------------- C24 ----------------------------------- *)

\* account a starts a send cycle of the running campaign inside the working
\* hours with its today-count at the limit
AtDailyLimit(a) ==
  /\ WorkerRunning
  /\ InsideHours
  /\ resetDailyCountersIfNeeded(Cur).ac.messagesSentToday[a] >= campaign.max_messages_per_day

\* the armed wakes of account a: those in flight do not count
WakesOf(a) == ChainsOf(a) - HoldersOfAccount(a)

\* C24: when the today-count of an account is at max_messages_per_day at
\* the start of its send cycle, the cycle claims no contact and afterwards the
\* only armed wake of the worker is the one at tomorrow's start_hour.
C24_LimitWaitsTomorrow ==
  [][\A a \in Accounts :
        (WakeMapped(a) /\ AtDailyLimit(a) /\ WakesOf(a) = 1) =>
           /\ contacts' = contacts
           /\ inflight' = inflight
           /\ WakesOf(a)' = 1
           /\ activeCampaigns'.accountTimeouts[a] =
                 ArmedEntry(AtTimer("wake", a, clock.day + 1, campaign.start_hour))]_vars

(* ------------------------------- C25 ----------------------------------- *)

\* what a wake of account a outside the working hours does: one wake armed at
\* start_hour of today (before start_hour) or of tomorrow (from end_hour on),
\* later than now, and nothing else changed
ArmsNextStart(a) ==
  LET day == IF clock.hour >= campaign.end_hour THEN clock.day + 1 ELSE clock.day
  IN  /\ activeCampaigns'.accountTimeouts[a] =
            ArmedEntry(AtTimer("wake", a, day, campaign.start_hour))
      /\ WakesOf(a)' = WakesOf(a)
      /\ timers' = timers
      /\ day * HoursPerDay + campaign.start_hour > NowHours
      /\ UNCHANGED <<contacts, campaign, inflight>>
      /\ activeCampaigns'.messagesSentToday = activeCampaigns.messagesSentToday

Settles(r) == Resolve(r) \/ Reject(r, TransportErrors)

\* C26: a send that is in flight when pauseCampaign or stopCampaign is
\* called is not aborted: it stays in flight over the pause or stop, and when
\* the transport call returns its outcome is written to the contact: sent
\* with sent_by_account_id and sent_at, failed with the error, or pending.
C26_ResultApplied ==
  [][/\ (ApiPause \/ ApiStop) =>
           \A c \in Contacts : HoldersOf(c)' = HoldersOf(c)
     /\ \A r \in Flights :
           Settles(r) =>
              /\ HoldersOf(r.contact)' = HoldersOf(r.contact) - 1
              /\ \/ /\ contacts'[r.contact].status = "sent"
                    /\ contacts'[r.contact].sent_by_account_id = r.acct
                    /\ contacts'[r.contact].sent_at # NULL
                 \/ /\ contacts'[r.contact].status = "failed"
                    /\ contacts'[r.contact].error \in PermanentErrors
                 \/ contacts'[r.contact].status = "pending"]_vars

\* the campaign was paused with a send in flight, and the send has returned
\* and marked its contact sent: pauseCampaign emptied accountTimeouts, so the
\* timer it holds was armed by the cycle that returned
C26_Witness ==
  /\ PausedState
  /\ inflight = EmptyBag
  /\ \E a \in ArmedInMap(activeCampaigns), c \in Contacts :
        contacts[c].status = "sent" /\ contacts[c].sent_by_account_id = a
  /\ \A c \in Contacts : contacts[c].status # "sending"

(* ------------------------------- C27 ----------------------------------- *)

\* a wake of account a gets as far as the connectivity check: the campaign
\* is running, the hour is inside the window and a is below its daily limit
ReachesConnectivityCheck(a) ==
  /\ WorkerRunning
  /\ InsideHours
  /\ resetDailyCountersIfNeeded(Cur).ac.messagesSentToday[a] < campaign.max_messages_per_day

\* the cycles of account a awaiting the send of contact c, in bag B
Awaited(B, a, c) ==
  CopiesIn([acct |-> a, contact |-> c, live |-> TRUE], B)
    + CopiesIn([acct |-> a, contact |-> c, live |-> FALSE], B)

\* account a starts a send of contact c in the step
StartsSend(a, c) == Awaited(inflight', a, c) > Awaited(inflight, a, c)

\* C27: an account the transport reports as not connected at the start of
\* its send cycle claims no contact in that cycle and is rescheduled at the
\* min_delay..max_delay cadence; every pending->sending transition is made by
\* a worker whose account was connected at that instant.
C27_DisconnectedNoClaim ==
  [][/\ \A a \in Accounts :
          (WakeMapped(a) /\ ReachesConnectivityCheck(a) /\ ~isConnected(a)) =>
             /\ inflight' = inflight
             /\ \A c \in Contacts : contacts'[c].status = "sending" => contacts[c].status = "sending"
             /\ NextWakeWithin(a, campaign.min_delay, campaign.max_delay)
     /\ \A a \in Accounts, c \in Contacts : StartsSend(a, c) => isConnected(a)
     /\ \A c \in Contacts : Claims(c) => \E a \in connected : StartsSend(a, c)]_vars

\* a participating account that is not connected waits for its next cycle
\* while a contact is pending and the other account has sent one
C27_Witness ==
  /\ WorkerRunning
  /\ \E a \in campaign_accounts \ connected :
        /\ activeCampaigns.accountTimeouts[a].st = "armed"
        /\ activeCampaigns.accountTimeouts[a].t.kind = "delay"
        /\ activeCampaigns.messagesSentToday[a] = 0
        /\ HoldersOfAccount(a) = 0
  /\ \E c \in Contacts : contacts[c].status = "pending"
  /\ \E c \in Contacts : contacts[c].status = "sent"

(* ------------------------------- C28 ----------------------------------- *)

\* C28: after a send by account A fails with the account-banned error, A
\* is disconnected as the scheduler sees it: isConnected(A) is false.
C28_BannedDisconnected ==
  [][\A r \in Flights :
        Reject(r, {ErrBanned}) => (r.acct \notin connected')]_vars

(* ------------------------------- C29 ----------------------------------- *)

\* the contacts account a has marked sent today (the clock of the
\* specification this is checked under stays in one day)
SentToday(a) ==
  {c \in Contacts : contacts[c].sent_at # NULL /\ contacts[c].sent_by_account_id = a}

\* C29: over a calendar day that contains a process restart, the contacts an
\* account marks sent in the campaign that day number at most
\* max_messages_per_day: the restart of the counters at zero cannot cause
\* over-sending.
C29_RestartNoOverSend ==
  \A a \in Accounts : Cardinality(SentToday(a)) <= campaign.max_messages_per_day

(* ------------------------------- C30 ----------------------------------- *)

\* the stored campaign is running and was started at most 168 hours ago
RunningRecent ==
  /\ campaign.status = "running"
  /\ campaign.started_at # <<>>
  /\ NowHours - campaign.started_at[1] <= MaxRunningHours

\* the armed one-shot timers of resumeRunningCampaigns, in bag B
ResumeTimers(B) ==
  LET T == {t \in BagToSet(B) : t.cb = "resume"}
  IN  BagCardinality([t \in T |-> CopiesIn(t, B)])

ClearsCounters ==
  /\ activeCampaigns.active
  /\ activeCampaigns'.active
  /\ \E a \in Accounts :
       activeCampaigns'.messagesSentToday[a] < activeCampaigns.messagesSentToday[a]

\* the cycle of account a gets to the new-day check: the campaign runs under
\* a WorkerState and the hour is inside the working hours
ReachesNewDayCheck(a) ==
  /\ WakeMapped(a) \/ (\E t \in WakeTimers : t.acct = a /\ WakeLoose(t))
  /\ WorkerRunning
  /\ InsideHours

\* C31 (what it says of the counters): a worker cycle that reaches the
\* new-day check on a date other than lastResetDate leaves every counter at
\* zero but for what it then counts itself (nothing: the send is awaited)
\* and lastResetDate at today; and no step clears a counter of a WorkerState
\* unless the date has advanced since the counters were last cleared or the
\* WorkerState was created: only at a day boundary and once per day.
C31_CountersClearedOncePerDay ==
  [][/\ \A a \in Accounts :
          (ReachesNewDayCheck(a) /\ activeCampaigns.lastResetDate # Today /\ activeCampaigns'.active) =>
             /\ \A b \in Accounts : activeCampaigns'.messagesSentToday[b] = 0
             /\ activeCampaigns'.lastResetDate = Today
     /\ ClearsCounters => activeCampaigns.lastResetDate < Today]_vars

\* the timers and the sends of every account are served
FairTime == SpecTime /\ Fairness

\* account a was deferred for its daily limit and the date has advanced: its
\* counter is still the one of the earlier day
DeferredOverNight(a) ==
  /\ Running
  /\ a \in campaign_accounts
  /\ ChainsOf(a) > 0
  /\ activeCampaigns.messagesSentToday[a] >= campaign.max_messages_per_day
  /\ activeCampaigns.lastResetDate < Today

\* account a can claim: connected, inside the working hours, a pending
\* contact exists
CanClaim(a) ==
  /\ Running
  /\ isConnected(a)
  /\ InsideHours
  /\ Claimable(Cur) # {}

\* the deferred account after the date change: an account deferred for its daily
\* limit that, on a later date, is connected and inside the working hours
\* while a pending contact exists eventually claims a contact, unless that
\* situation ends first.
DeferredSendsAgain ==
  \A a \in Accounts :
    (DeferredOverNight(a) /\ CanClaim(a)) ~> (HoldersOfAccount(a) > 0 \/ ~CanClaim(a))

(* ------------------------------- C32 ----------------------------------- *)

\* the armed wake timers of account a: the one accountTimeouts holds and the
\* ones it does not
ArmedWakes(a) ==
  LET T == {t \in BagToSet(timers) : t.cb = "wake" /\ t.acct = a}
  IN  BagCardinality([t \in T |-> CopiesIn(t, timers)])
      + (IF activeCampaigns.accountTimeouts[a].st = "armed" THEN 1 ELSE 0)

\* C32: in every reachable state every account has at most one armed wake
\* timer, and every armed wake timer is the one accountTimeouts records for
\* its account (none is armed beside the map, where pause and stop cannot
\* clear it).
C32_OneTimerPerAccount ==
  /\ \A a \in Accounts : ArmedWakes(a) <= 1
  /\ \A t \in BagToSet(timers) : t.cb # "wake"

(* ------------------------------- C33 ----------------------------------- *)

\* C33: in every reachable state where the campaign is completed every
\* contact is sent or failed: none is pending or sending when the campaign
\* completes and none goes back to pending afterwards.
C33_CompletedAllSettled ==
  campaign.status = "completed" =>
     \A c \in Contacts : contacts[c].status \in {"sent", "failed"}

(* ------------------------------- C34 ----------------------------------- *)

\* the user halting or resetting the campaign while the deferred resume of
\* the constructor is pending
NextDeferred ==
  Boot \/ ResumeTimerFires \/ ApiPause \/ ApiStop \/ ApiReset \/ MappedTimerFires \/ Tick

SpecDeferred == Init /\ [][NextDeferred]_vars

\* the user has halted or reset the campaign
HaltedByUser == campaign.status \in {"paused", "stopped", "draft"}

\* C34: when the deferred resume timer of the constructor fires on a
\* campaign that the user has paused, stopped or reset in the meantime, the
\* campaign is not started: its stored status stays as it is and no worker
\* is created.
C34_HaltedNotResumed ==
  [][(ResumeTimerFires /\ HaltedByUser) =>
        /\ campaign'.status = campaign.status
        /\ ~activeCampaigns'.active
        /\ \A a \in Accounts : ChainsOf(a)' = 0]_vars

(* ------------------------------- C35 ----------------------------------- *)

\* the checker polling a campaign that the user starts and resets
NextRepoll ==
  Boot \/ CheckerTick \/ ApiStart \/ ApiReset \/ MappedTimerFires \/ SendOk \/ Connect \/ Tick

SpecRepoll == InitScheduled /\ [][NextRepoll]_vars

\* resetCampaign has just returned
JustReset == last \in {"reset", "reset2"}

\* C35: a tick of the ScheduledCampaignChecker that follows resetCampaign
\* leaves the campaign draft and without workers, also when its
\* scheduled_start_datetime has passed.
C35_ResetStaysDraft ==
  [][(JustReset /\ CheckerTick) =>
        /\ campaign'.status = "draft"
        /\ ~activeCampaigns'.active
        /\ \A a \in Accounts : ChainsOf(a)' = ChainsOf(a)]_vars

(* ------------------------------- C36 ----------------------------------- *)

\* the state resetCampaign leaves: the campaign draft without WorkerState and
\* every contact pending with sent_by_account_id, sent_at and error cleared
AsReset ==
  /\ campaign.status = "draft"
  /\ ~activeCampaigns.active
  /\ \A c \in Contacts : contacts[c] = PendingContact

\* C36: from the state resetCampaign leaves, no step other than a call of
\* startCampaign changes a contact, also not the return of a send that was
\* in flight when the campaign was reset.
C36_ResetContactsStay ==
  [][(AsReset /\ ~StartCalled) => contacts' = contacts]_vars

(* ------------------------------- C37 ----------------------------------- *)

\* the contacts that the step marks sent for account a
MarksSentBy(a) ==
  IF \E r \in Flights : r.acct = a /\ Resolve(r) THEN 1 ELSE 0

\* the step keeps the WorkerState it found and clears no counter
SameCounters ==
  /\ activeCampaigns.active
  /\ activeCampaigns'.active
  /\ ~ClearsCounters

\* C37: while the WorkerState of the campaign stays and its counters are not
\* cleared, every step adds to messagesSentToday[account] the number of
\* contacts it marks sent for the account: one for a successful send, nothing
\* for a failed, skipped or deferred cycle.
C37_CounterCountsSends ==
  [][SameCounters =>
        \A a \in Accounts :
           activeCampaigns'.messagesSentToday[a] =
              activeCampaigns.messagesSentToday[a] + MarksSentBy(a)]_vars
====
